---------------------------- MODULE Spec2Model ----------------------------
(***************************************************************************)
(* The engagement scoring and achievement engine of StockAnalyzer          *)
(* (src/gamification.py) over its SQLite store (src/database.py).          *)
(*                                                                         *)
(* A session owns st.session_state['user_stats'], a dict loaded once from  *)
(* the user_stats row and the achievements table.  Every public function   *)
(* of gamification.py is one action; it runs to completion (Streamlit      *)
(* runs a session's script top to bottom), so the state between two        *)
(* actions is the state a caller observes after an operation returned or   *)
(* raised.                                                                 *)
(*                                                                         *)
(* Units: a sentiment score is carried in percent (0.8 is 80), a calendar  *)
(* date as the pair <<month, day>> that strftime("%Y-%m-%d") prints, the    *)
(* clock as a day ordinal plus an hour.                                    *)
(*                                                                         *)
(* stats['achievements'] and the achievements table are kept as bags of    *)
(* IDs: the code appends to them and tests membership, and never reads the *)
(* position of an ID.  A list a pass returns keeps its order.              *)
(***************************************************************************)
EXTENDS Integers, Sequences, FiniteSets, Bags, TLC

VARIABLES
    session_state,   \* session -> st.session_state['user_stats'], or NoStats
    db_stats,        \* the user_stats row with id = 1
    db_achievements, \* the achievements table: the bag of its rows' achievement_id
    db_up,           \* whether a write to the store succeeds
    today,           \* the clock's day, counted from StartDate
    hour,            \* the clock's hour of the day
    ret,             \* what the last call handed back: a list, None, or the
                     \* exception that left it
    awards,          \* session -> the bag of the IDs that the evaluation passes of
                     \* that session returned as newly earned (history)
    observed,        \* session -> the set of the scores that the session passed
                     \* to check_sentiment_achievements (history)
    loads,           \* session -> how many times the session has called
                     \* get_user_stats (history)
    visited          \* session -> the set of the days on which the session
                     \* visited under a clock that can be set back (history
                     \* kept by the visits of SpecClock)

vars == <<session_state, db_stats, db_achievements, db_up, today, hour, ret, awards,
         observed, loads, visited>>

(***************************************************************************)
(* Bounds of the model.                                                    *)
(***************************************************************************)
\* the clock runs over the days 0..MaxDay
MaxDay == 3
\* Spec, SpecFail, SpecCount: at most MaxEvents tracked events (the five
\* track_* counters together) among any number of visits and evaluation passes
MaxEvents == 1
\* SpecTrack: each counter runs up to Slack past the threshold of its rule
Slack == 1
\* SpecStore: the achievements table holds at most MaxRows rows; SpecCrash:
\* the sessions of the user are awarded at most MaxRows IDs
MaxRows == 3
\* SpecCrash: a rejected write or a crash is placed at one of the first
\* MaxWrites writes of a call
MaxWrites == 4
\* SpecCrash: the store is loaded at most MaxSessions times
MaxSessions == 3
\* SpecClock: at most MaxVisits visits are counted in app_opens
MaxVisits == 5

(***************************************************************************)
(* The catalog, src/gamification.py:18-139.                                *)
(***************************************************************************)
\* the IDs in the dict's iteration (insertion) order
CatalogOrder ==
    << "starter", "diversified", "bull_catcher", "bear_tamer", "dividend_hunter",
       "tech_enthusiast", "value_investor", "globetrotter", "night_owl",
       "early_bird", "ai_explorer", "sentiment_analyst", "portfolio_master",
       "consecutive_login", "market_crusher" >>

AchievementIds == { CatalogOrder[i] : i \in 1..Len(CatalogOrder) }

\* ACHIEVEMENTS[id]['points']
ACHIEVEMENTS ==
    [ starter |-> 10, diversified |-> 25, bull_catcher |-> 15, bear_tamer |-> 20,
      dividend_hunter |-> 30, tech_enthusiast |-> 20, value_investor |-> 25,
      globetrotter |-> 30, night_owl |-> 10, early_bird |-> 10, ai_explorer |-> 20,
      sentiment_analyst |-> 25, portfolio_master |-> 30, consecutive_login |-> 15,
      market_crusher |-> 50 ]

\* the thresholds of the rules of check_achievements
AiExplorerUses == 5
SentimentAnalystChecks == 10
PortfolioMasterAdditions == 10
ConsecutiveLoginDays == 3
NightOwlHour == 22
EarlyBirdHour == 7
\* the thresholds of check_sentiment_achievements, in percent
BullCatcherScore == 80
BearTamerScore == 40

(***************************************************************************)
(* Python values.                                                          *)
(***************************************************************************)
\* None, where a text may stand
None == "None"
\* 'user_stats' not in st.session_state
NoStats == [ absent |-> TRUE ]
\* what a call hands back: a list, None, or an exception leaving it
Returned(list) == [ kind |-> "list", list |-> list, exc |-> "" ]
ReturnedNone == [ kind |-> "None", list |-> <<>>, exc |-> "" ]
ReturnedBool(b) == [ kind |-> IF b THEN "True" ELSE "False", list |-> <<>>, exc |-> "" ]
Raised(e) == [ kind |-> "raise", list |-> <<>>, exc |-> e ]

\* a slip of the award loops: the points are added once, after the loop
SumPointsOnce(ids) ==
    IF ids = <<>> THEN 0 ELSE ACHIEVEMENTS[ids[Len(ids)]]

RECURSIVE SumPoints(_)
\* the points a list of IDs is worth: what the += of the award loops adds up to
SumPoints(ids) ==
    IF ids = <<>> THEN 0 ELSE ACHIEVEMENTS[Head(ids)] + SumPoints(Tail(ids))

RECURSIVE ListToBag(_)
\* the bag of the elements of a list
ListToBag(list) ==
    IF list = <<>> THEN EmptyBag ELSE SetToBag({ Head(list) }) (+) ListToBag(Tail(list))

RECURSIVE BagPoints(_)
\* the points of a bag of IDs, each copy counted
BagPoints(bag) ==
    IF bag = EmptyBag THEN 0
    ELSE LET id == CHOOSE x \in DOMAIN bag : TRUE
         IN  bag[id] * ACHIEVEMENTS[id]
             + BagPoints([ x \in DOMAIN bag \ { id } |-> bag[x] ])

(***************************************************************************)
(* Dates.  datetime.now().strftime("%Y-%m-%d") prints the clock's day as   *)
(* text; update_visit_streak compares the text and, when it differs,       *)
(* parses both texts back (strptime) and subtracts.  The text is modelled  *)
(* as <<month, day>>; the model's days lie in one year, starting on        *)
(* StartDate so that they cross the end of a month.                        *)
(***************************************************************************)
MonthDays == << 31, 28, 31, 30, 31, 30, 31, 31, 30, 31, 30, 31 >>

RECURSIVE DaysBefore(_)
\* the days of the year before month m
DaysBefore(m) == IF m = 1 THEN 0 ELSE MonthDays[m - 1] + DaysBefore(m - 1)

\* datetime.strptime(text, "%Y-%m-%d"), as the day of the year
strptime(text) == DaysBefore(text[1]) + text[2]

\* date.strftime("%Y-%m-%d") of the day of the year n
strftime(n) ==
    LET m == CHOOSE k \in 1..12 : DaysBefore(k) < n /\ n <= DaysBefore(k) + MonthDays[k]
    IN  << m, n - DaysBefore(m) >>

\* the first day of the model's clock: January 30
StartDate == << 1, 30 >>

\* datetime.now().strftime("%Y-%m-%d") when the clock's day is d
DateText(d) == strftime(strptime(StartDate) + d)

\* the hours the clock takes: either side of both hour rules
Hours == { 6, 12, 22 }


(***************************************************************************)
(* The store, src/database.py.  get_db_connection sets row_factory =       *)
(* sqlite3.Row, so every fetched row is a sqlite3.Row.  The module runs    *)
(* init_gamification_tables() on import, so the user_stats row with id = 1 *)
(* exists whenever the engine runs.                                        *)
(***************************************************************************)
\* json.dumps of a list: the text kept in the sectors_in_portfolio column
json_dumps(list) == [json |-> list]

\* json.loads inside get_user_stats' try/except: the list, or [] when it fails
json_loads(text) ==
    IF "json" \in DOMAIN text THEN text.json ELSE <<>>

\* the row that init_gamification_tables inserts into an empty user_stats
\* table on the day d
DefaultRow(d) ==
    [ total_points |-> 0, stocks_analyzed |-> 0, sentiment_checks |-> 0,
      ai_screener_uses |-> 0, stocks_favorited |-> 0, portfolio_additions |-> 0,
      app_opens |-> 0, consecutive_days |-> 0, last_visit_date |-> DateText(d),
      sectors_in_portfolio |-> json_dumps(<<>>), highest_sentiment_score |-> 0,
      lowest_sentiment_score |-> 0, search_history_count |-> 0 ]

\* get_user_stats(): dict(row), the sectors decoded, the achievement_id of
\* every row of the achievements table added as 'achievements'
get_user_stats(row, log) ==
    [ total_points |-> row.total_points,
      achievements |-> log,
      stocks_analyzed |-> row.stocks_analyzed,
      sentiment_checks |-> row.sentiment_checks,
      ai_screener_uses |-> row.ai_screener_uses,
      stocks_favorited |-> row.stocks_favorited,
      portfolio_additions |-> row.portfolio_additions,
      app_opens |-> row.app_opens,
      consecutive_days |-> row.consecutive_days,
      last_visit_date |-> row.last_visit_date,
      sectors_in_portfolio |-> json_loads(row.sectors_in_portfolio),
      highest_sentiment_score |-> row.highest_sentiment_score,
      lowest_sentiment_score |-> row.lowest_sentiment_score,
      search_history_count |-> row.search_history_count ]

(***************************************************************************)
(* A call runs on a context c: the session's dict (mem), the row and the   *)
(* log of the store, whether the store takes writes (up), what the call    *)
(* has returned (ret), the lists of newly earned IDs its evaluation passes *)
(* have produced so far (passes), the sentiment scores it was handed       *)
(* (seen), how many times it has called get_user_stats (loads) and the     *)
(* days of the visits it was asked to note (visits).  Each                 *)
(* write of a call commits on its own connection, so the writes of one     *)
(* call can fare differently: writes counts the writes the call has        *)
(* attempted, faults holds the numbers of the writes the store rejects,    *)
(* and crash, when not 0, is the number of the write after which the       *)
(* process dies.                                                           *)
(***************************************************************************)
Ctx(mem, row, log, up) ==
    [ mem |-> mem, row |-> row, log |-> log, up |-> up, ret |-> ReturnedNone,
      passes |-> <<>>, seen |-> {}, loads |-> 0,
      visits |-> {}, writes |-> 0, faults |-> {}, crash |-> 0 ]

\* the process has died: nothing after the crash point is executed
Dead(c) == c.crash # 0 /\ c.writes >= c.crash

\* the store takes the next write of the call
Accepted(c) == c.up /\ (c.writes + 1) \notin c.faults

\* update_user_stats(stats): UPDATE user_stats ... WHERE id = 1 with every
\* column taken from stats, 'achievements' left out; an exception of the
\* UPDATE is caught and the function returns False
update_user_stats(c, stats) ==
    IF Dead(c) THEN c
    ELSE IF Accepted(c)
    THEN [ c EXCEPT !.writes = @ + 1, !.row =
             [ total_points |-> stats.total_points,
               stocks_analyzed |-> stats.stocks_analyzed,
               sentiment_checks |-> stats.sentiment_checks,
               ai_screener_uses |-> stats.ai_screener_uses,
               stocks_favorited |-> stats.stocks_favorited,
               portfolio_additions |-> stats.portfolio_additions,
               app_opens |-> stats.app_opens,
               consecutive_days |-> stats.consecutive_days,
               last_visit_date |-> stats.last_visit_date,
               sectors_in_portfolio |-> json_dumps(stats.sectors_in_portfolio),
               highest_sentiment_score |-> stats.highest_sentiment_score,
               lowest_sentiment_score |-> stats.lowest_sentiment_score,
               search_history_count |-> stats.search_history_count ] ]
    ELSE [ c EXCEPT !.writes = @ + 1 ]

\* add_achievement(achievement_id): INSERT INTO achievements (achievement_id);
\* the table has no UNIQUE constraint on achievement_id, so the INSERT adds a
\* row whatever the table holds; an exception of the INSERT is caught and the
\* function returns False
add_achievement(c, achievement_id) ==
    IF Dead(c) THEN c
    ELSE IF Accepted(c)
    THEN [ c EXCEPT !.writes = @ + 1, !.log = @ (+) SetToBag({ achievement_id }),
                    !.ret = ReturnedBool(TRUE) ]
    ELSE [ c EXCEPT !.writes = @ + 1, !.ret = ReturnedBool(FALSE) ]

RECURSIVE add_achievements(_, _)
\* add_achievement for each ID of a list, in order
add_achievements(c, ids) ==
    IF ids = <<>> THEN c
    ELSE add_achievements(add_achievement(c, Head(ids)), Tail(ids))

(***************************************************************************)
(* The engine, src/gamification.py.                                        *)
(***************************************************************************)
\* a slip of initialize_user_stats: the dict is loaded from the store on
\* every call
initialize_user_stats_always(c) ==
    [ c EXCEPT !.mem = get_user_stats(c.row, c.log), !.loads = @ + 1 ]

\* initialize_user_stats(): load the dict from the store if the session has none
initialize_user_stats(c) ==
    IF c.mem = NoStats
    THEN [ c EXCEPT !.mem = get_user_stats(c.row, c.log), !.loads = @ + 1 ]
    ELSE c

\* a slip of increment_stat: the increment has the wrong sign
increment_stat_negative(c, stat_name) ==
    LET c1 == initialize_user_stats(c)
        c2 == IF stat_name \in DOMAIN c1.mem
              THEN [ c1 EXCEPT !.mem[stat_name] = @ - 1 ]
              ELSE c1
    IN  update_user_stats(c2, c2.mem)

\* increment_stat(stat_name): add 1 in the dict, if it has the key, and save
increment_stat(c, stat_name) ==
    LET c1 == initialize_user_stats(c)
        c2 == IF stat_name \in DOMAIN c1.mem
              THEN [ c1 EXCEPT !.mem[stat_name] = @ + 1 ]
              ELSE c1
    IN  update_user_stats(c2, c2.mem)

\* a slip of update_visit_streak: a gap of several days counts as one more day
StreakAfterNoReset(consecutive_days, day_diff) ==
    IF day_diff >= 1 THEN consecutive_days + 1 ELSE consecutive_days

\* the new value of consecutive_days in update_visit_streak, given
\* day_diff = (current_date - last_date).days, which is not 0
StreakAfter(consecutive_days, day_diff) ==
    IF day_diff = 1 THEN consecutive_days + 1
    ELSE IF day_diff > 1 THEN 1
    ELSE consecutive_days

\* a slip of update_visit_streak: app_opens counts every call, also one on
\* the date of the last visit
update_visit_streak_counting(c, d) ==
    LET c1 == initialize_user_stats(c)
        last_visit == c1.mem.last_visit_date
        now_text == DateText(d)
        day_diff == strptime(now_text) - strptime(last_visit)
        stats == [ c1.mem EXCEPT
                     !.consecutive_days = StreakAfter(@, day_diff),
                     !.last_visit_date = now_text,
                     !.app_opens = @ + 1 ]
    IN  [ update_user_stats(c1, stats) EXCEPT !.mem = stats, !.ret = ReturnedNone ]

\* update_visit_streak() when the clock's day is d
update_visit_streak(c, d) ==
    LET c1 == initialize_user_stats(c)
        last_visit == c1.mem.last_visit_date
        now_text == DateText(d)
        day_diff == strptime(now_text) - strptime(last_visit)
    IN  IF last_visit # now_text
        THEN LET stats == [ c1.mem EXCEPT
                              !.consecutive_days = StreakAfter(@, day_diff),
                              !.last_visit_date = now_text,
                              !.app_opens = @ + 1 ]
             IN  [ update_user_stats(c1, stats) EXCEPT !.mem = stats, !.ret = ReturnedNone ]
        ELSE [ c1 EXCEPT !.ret = ReturnedNone ]

\* the IDs of an award loop whose turn is reached before the process dies:
\* each turn makes one write
Reached(c, ids) ==
    IF c.crash = 0 \/ c.crash - c.writes >= Len(ids) THEN ids
    ELSE SubSeq(ids, 1, c.crash - c.writes)

\* a slip of the award loops: when the store rejects the writes, the dict is
\* put back as it was before the awards
AwardAllRollback(c, new_achievements) ==
    LET stats == [ c.mem EXCEPT
                     !.achievements = @ (+) ListToBag(new_achievements),
                     !.total_points = @ + SumPoints(new_achievements) ]
        c1 == add_achievements([ c EXCEPT !.mem = stats ], new_achievements)
        c2 == IF new_achievements # <<>> THEN update_user_stats(c1, stats) ELSE c1
    IN  [ (IF c.up THEN c2 ELSE c) EXCEPT
            !.ret = Returned(new_achievements),
            !.passes = @ \o Reached(c, new_achievements) ]

\* the tail of check_achievements, check_sector_achievements and
\* check_sentiment_achievements: append each new ID to stats['achievements'],
\* add its points, add_achievement it; save the stats if there was any;
\* return the list
AwardAll(c, new_achievements) ==
    LET stats == [ c.mem EXCEPT
                     !.achievements = @ (+) ListToBag(new_achievements),
                     !.total_points = @ + SumPoints(new_achievements) ]
        c1 == add_achievements([ c EXCEPT !.mem = stats ], new_achievements)
        c2 == IF new_achievements # <<>> THEN update_user_stats(c1, stats) ELSE c1
    IN  [ c2 EXCEPT !.ret = Returned(new_achievements),
            !.passes = @ \o Reached(c, new_achievements) ]

\* a slip of the counter rules: > where the code has >=
StatRulesStrict(stats, h) ==
    << << "starter", stats.stocks_favorited > 0 >>,
       << "ai_explorer", stats.ai_screener_uses > AiExplorerUses >>,
       << "sentiment_analyst", stats.sentiment_checks > SentimentAnalystChecks >>,
       << "portfolio_master", stats.portfolio_additions > PortfolioMasterAdditions >>,
       << "consecutive_login", stats.consecutive_days >= ConsecutiveLoginDays >>,
       << "night_owl", h >= NightOwlHour >>,
       << "early_bird", h < EarlyBirdHour >> >>

\* the rules of check_achievements, in the order of its if statements:
\* <<ID, whether its condition holds on stats at the hour h>>
StatRules(stats, h) ==
    << << "starter", stats.stocks_favorited > 0 >>,
       << "ai_explorer", stats.ai_screener_uses >= AiExplorerUses >>,
       << "sentiment_analyst", stats.sentiment_checks >= SentimentAnalystChecks >>,
       << "portfolio_master", stats.portfolio_additions >= PortfolioMasterAdditions >>,
       << "consecutive_login", stats.consecutive_days >= ConsecutiveLoginDays >>,
       << "night_owl", h >= NightOwlHour >>,
       << "early_bird", h < EarlyBirdHour >> >>

\* a slip of the rules: the test that the ID is not yet earned is left out
FiresAgain(rule, current_achievements) == rule[2]

\* whether a rule fires: its condition holds and its ID is not in the list
Fires(rule, current_achievements) ==
    rule[2] /\ ~BagIn(rule[1], current_achievements)

RECURSIVE NewFrom(_, _)
\* new_achievements: the IDs of the rules that fire, in the rules' order
NewFrom(rules, current_achievements) ==
    IF rules = <<>> THEN <<>>
    ELSE (IF Fires(Head(rules), current_achievements)
          THEN << Head(rules)[1] >> ELSE <<>>)
         \o NewFrom(Tail(rules), current_achievements)

\* check_achievements() at the hour h
check_achievements(c, h) ==
    LET c1 == initialize_user_stats(c)
    IN  AwardAll(c1, NewFrom(StatRules(c1.mem, h), c1.mem.achievements))

\* track_stock_analysis(ticker): no return statement, so it returns None
track_stock_analysis(c, h) ==
    [ check_achievements(increment_stat(c, "stocks_analyzed"), h) EXCEPT !.ret = ReturnedNone ]

\* a slip of track_sentiment_check: a sentiment check counts as an analysis too
track_sentiment_check_as_analysis(c, h) ==
    [ check_achievements(increment_stat(increment_stat(c, "sentiment_checks"),
                                        "stocks_analyzed"), h)
        EXCEPT !.ret = ReturnedNone ]

\* track_sentiment_check(ticker)
track_sentiment_check(c, h) ==
    [ check_achievements(increment_stat(c, "sentiment_checks"), h) EXCEPT !.ret = ReturnedNone ]

\* track_ai_screener_use()
track_ai_screener_use(c, h) ==
    [ check_achievements(increment_stat(c, "ai_screener_uses"), h) EXCEPT !.ret = ReturnedNone ]

\* track_favorite_added()
track_favorite_added(c, h) ==
    [ check_achievements(increment_stat(c, "stocks_favorited"), h) EXCEPT !.ret = ReturnedNone ]


(***************************************************************************)
(* Portfolio holdings.  get_portfolio_holdings() returns cursor.fetchall() *)
(* of a connection whose row_factory is sqlite3.Row.  A sqlite3.Row has    *)
(* keys() and indexing and no get method: holding.get(...) raises          *)
(* AttributeError.  A row is modelled by its ticker (NOT NULL) and its     *)
(* sector (None when NULL); what yfinance knows of a ticker is YfInfo.     *)
(***************************************************************************)
\* whether the rows get_portfolio_holdings returns have a get method
RowHasGet == FALSE

\* str.strip() on the sector and country texts of the model
strip(text) == IF text = "  " THEN "" ELSE text

\* str.lower() on the sector texts of the model
lower(text) ==
    CASE text = "Technology" -> "technology"
      [] text = "Tech" -> "tech"
      [] text = "Energy" -> "energy"
      [] text = "Utilities" -> "utilities"
      [] text = "Financials" -> "financials"
      [] OTHER -> text

\* the sectors that count as technology, line 315
TechSectors == { "technology", "information technology", "tech" }

\* dividendYield above 0.03, carried in per mille
DividendYieldOver == 30
\* trailingPE below 15
PeBelow == 15
\* the counts the portfolio rules ask for
DiversifiedSectors == 3
TechEnthusiastStocks == 5
DividendHunterStocks == 3
ValueInvestorStocks == 3
GlobetrotterCountries == 3

\* yf.Ticker(ticker).info, or Unavailable when the lookup raises; a number
\* that is None or missing is carried as 0 (both are falsy in the ifs that
\* read it)
Unavailable == [ error |-> TRUE ]

YfInfo(ticker) ==
    CASE ticker = "AAA" -> [ dividendYield |-> 40, trailingPE |-> 30, country |-> "United States" ]
      [] ticker = "BBB" -> [ dividendYield |-> 40, trailingPE |-> 12, country |-> "United States" ]
      [] ticker = "CCC" -> [ dividendYield |-> 40, trailingPE |-> 22, country |-> "Canada" ]
      [] ticker = "DDD" -> [ dividendYield |-> 0, trailingPE |-> 0, country |-> None ]
      [] OTHER -> Unavailable

\* the portfolio of the spec's scenario: 5 holdings in 4 distinct sectors,
\* 3 of them with a dividend yield of 4%
ScenarioHoldings ==
    << [ ticker |-> "AAA", sector |-> "Technology" ],
       [ ticker |-> "BBB", sector |-> "Energy" ],
       [ ticker |-> "CCC", sector |-> "Utilities" ],
       [ ticker |-> "DDD", sector |-> "Financials" ],
       [ ticker |-> "EEE", sector |-> "Energy" ] >>

\* what get_portfolio_holdings() returns to a call, in the model
Snapshots == { <<>>, ScenarioHoldings }

\* the tallies of the loop of check_sector_achievements before any holding
NoTally ==
    [ sectors |-> {}, tech_stocks |-> 0, dividend_stocks |-> 0, low_pe_stocks |-> 0,
      countries |-> {}, raised |-> FALSE ]

\* lines 319-339 for one holding: the lookups inside try/except; an exception
\* (the lookup, or None.strip() on a null country) ends the holding and keeps
\* what was counted before it
TallyInfo(t, holding) ==
    LET info == YfInfo(holding.ticker)
    IN  IF info = Unavailable THEN t
        ELSE LET t1 == IF info.dividendYield # 0 /\ info.dividendYield > DividendYieldOver
                       THEN [ t EXCEPT !.dividend_stocks = @ + 1 ] ELSE t
                 t2 == IF info.trailingPE # 0 /\ info.trailingPE < PeBelow
                       THEN [ t1 EXCEPT !.low_pe_stocks = @ + 1 ] ELSE t1
             IN  IF info.country # None /\ strip(info.country) # ""
                 THEN [ t2 EXCEPT !.countries = @ \cup { info.country } ]
                 ELSE t2

\* lines 308-339 for one holding: holding.get('sector', '').strip() is outside
\* the try, so a null sector (None.strip()) raises out of the function
TallyHolding(t, holding) ==
    IF holding.sector = None THEN [ t EXCEPT !.raised = TRUE ]
    ELSE LET sector == strip(holding.sector)
             t1 == IF sector # "" /\ sector # "Unknown"
                   THEN [ t EXCEPT
                            !.sectors = @ \cup { sector },
                            !.tech_stocks = IF lower(sector) \in TechSectors
                                            THEN @ + 1 ELSE @ ]
                   ELSE t
         IN  TallyInfo(t1, holding)

RECURSIVE Tally(_, _)
\* the loop over the holdings, stopping where a holding raises
Tally(t, rows) ==
    IF rows = <<>> \/ t.raised THEN t
    ELSE Tally(TallyHolding(t, Head(rows)), Tail(rows))

\* the rules of check_sector_achievements, in the order of its if statements
SectorRules(t) ==
    << << "diversified", Cardinality(t.sectors) >= DiversifiedSectors >>,
       << "tech_enthusiast", t.tech_stocks >= TechEnthusiastStocks >>,
       << "dividend_hunter", t.dividend_stocks >= DividendHunterStocks >>,
       << "value_investor", t.low_pe_stocks >= ValueInvestorStocks >>,
       << "globetrotter", Cardinality(t.countries) >= GlobetrotterCountries >> >>

RECURSIVE SetToList(_)
\* list(a_set): the elements in some order
SetToList(S) ==
    IF S = {} THEN <<>>
    ELSE LET x == CHOOSE y \in S : TRUE IN << x >> \o SetToList(S \ { x })

\* check_sector_achievements() over the rows of portfolio_holdings: with no
\* rows it returns []; otherwise line 310 calls holding.get on the first row
check_sector_achievements(c, rows) ==
    LET c1 == initialize_user_stats(c)
        t == Tally(NoTally, rows)
        stats == [ c1.mem EXCEPT !.sectors_in_portfolio = SetToList(t.sectors) ]
    IN  IF rows = <<>> THEN [ c1 EXCEPT !.ret = Returned(<<>>) ]
        ELSE IF ~RowHasGet \/ t.raised THEN [ c1 EXCEPT !.ret = Raised("AttributeError") ]
        ELSE AwardAll([ c1 EXCEPT !.mem = stats ],
                      NewFrom(SectorRules(t), c1.mem.achievements))

\* whether a call ended in an exception
HasRaised(c) == c.ret.kind = "raise"

\* a slip of track_portfolio_addition: the counter is incremented and saved
\* after the rules were evaluated
track_portfolio_addition_rules_first(c, rows, h) ==
    LET c1 == check_sector_achievements(c, rows)
    IN  IF HasRaised(c1) THEN c1
        ELSE [ increment_stat(check_achievements(c1, h), "portfolio_additions")
                 EXCEPT !.ret = ReturnedNone ]

\* track_portfolio_addition(): an exception of check_sector_achievements
\* leaves it before check_achievements runs
track_portfolio_addition(c, rows, h) ==
    LET c1 == check_sector_achievements(increment_stat(c, "portfolio_additions"), rows)
    IN  IF HasRaised(c1) THEN c1
        ELSE [ check_achievements(c1, h) EXCEPT !.ret = ReturnedNone ]

\* the rules of check_sentiment_achievements on the score (percent) and type
SentimentRules(sentiment_value, sentiment_type) ==
    << << "bull_catcher", sentiment_type = "bullish" /\ sentiment_value >= BullCatcherScore >>,
       << "bear_tamer", sentiment_type = "bearish" /\ sentiment_value <= BearTamerScore >> >>

\* check_sentiment_achievements(sentiment_score, sentiment_type): the highest
\* and lowest scores are updated in the dict; the dict is saved only by AwardAll
check_sentiment_achievements(c, sentiment_score, sentiment_type) ==
    LET c1 == initialize_user_stats(c)
        sentiment_value == sentiment_score
        s1 == IF sentiment_value > c1.mem.highest_sentiment_score
              THEN [ c1.mem EXCEPT !.highest_sentiment_score = sentiment_value ]
              ELSE c1.mem
        s2 == IF s1.lowest_sentiment_score = 0 \/ sentiment_value < s1.lowest_sentiment_score
              THEN [ s1 EXCEPT !.lowest_sentiment_score = sentiment_value ]
              ELSE s1
    IN  AwardAll([ c1 EXCEPT !.mem = s2, !.seen = @ \cup { sentiment_value } ],
                 NewFrom(SentimentRules(sentiment_value, sentiment_type),
                         c1.mem.achievements))

\* calculate_portfolio_return(holdings) on a non-empty list: holding.get raises
\* on a sqlite3.Row; a row with get has no 'current_price' column, so nothing
\* is summed, total_cost stays 0 and the return is 0
calculate_portfolio_return(rows) ==
    IF RowHasGet THEN [ raised |-> FALSE, value |-> 0 ]
    ELSE [ raised |-> TRUE, value |-> 0 ]

\* check_portfolio_performance() when calculate_spy_return() is spy_return
check_portfolio_performance(c, rows, spy_return) ==
    LET c1 == initialize_user_stats(c)
        portfolio_return == calculate_portfolio_return(rows)
    IN  IF rows = <<>> THEN [ c1 EXCEPT !.ret = Returned(<<>>) ]
        ELSE IF portfolio_return.raised
        THEN [ c1 EXCEPT !.ret = Raised("AttributeError") ]
        ELSE IF portfolio_return.value > spy_return /\ portfolio_return.value > 0
                /\ ~BagIn("market_crusher", c1.mem.achievements)
        THEN AwardAll(c1, << "market_crusher" >>)
        ELSE [ c1 EXCEPT !.ret = Returned(<<>>) ]

\* a slip of initialize_gamification: the rules are evaluated before the
\* streak is updated
initialize_gamification_rules_first(c, d, h) ==
    [ update_visit_streak(check_achievements(initialize_user_stats(c), h), d)
        EXCEPT !.ret = ReturnedNone ]

\* initialize_gamification(): the app's start, on the day d at the hour h
initialize_gamification(c, d, h) ==
    [ check_achievements(update_visit_streak(initialize_user_stats(c), d), h)
        EXCEPT !.ret = ReturnedNone ]

(***************************************************************************)
(* The state machine.                                                      *)
(***************************************************************************)
Sessions == { "s1", "s2" }

\* the sentiment results (score in percent, type) a page hands to the engine
SentimentResults ==
    { [ score |-> 80, type |-> "bullish" ], [ score |-> 40, type |-> "bearish" ] }

\* the benchmark returns (percent) calculate_spy_return() gives in the model
SpyReturns == { -2, 3 }

Init ==
    /\ session_state = [ s \in Sessions |-> NoStats ]
    /\ db_stats = DefaultRow(0)
    /\ db_achievements = EmptyBag
    /\ db_up = TRUE
    /\ today = 0
    /\ hour \in Hours
    /\ ret = ReturnedNone
    /\ awards = [ s \in Sessions |-> EmptyBag ]
    /\ observed = [ s \in Sessions |-> {} ]
    /\ loads = [ s \in Sessions |-> 0 ]
    /\ visited = [ s \in Sessions |-> {} ]

\* the context a call of session s starts in
Here(s) == Ctx(session_state[s], db_stats, db_achievements, db_up)

\* the state after a call of session s that ended in the context c
Run(s, c) ==
    /\ session_state' = [ session_state EXCEPT ![s] = c.mem ]
    /\ db_stats' = c.row
    /\ db_achievements' = c.log
    /\ ret' = c.ret
    /\ awards' = [ awards EXCEPT ![s] = @ (+) ListToBag(c.passes) ]
    /\ observed' = [ observed EXCEPT ![s] = @ \cup c.seen ]
    /\ loads' = [ loads EXCEPT ![s] = @ + c.loads ]
    /\ visited' = [ visited EXCEPT ![s] = @ \cup c.visits ]
    /\ UNCHANGED << db_up, today, hour >>

TrackStockAnalysis(s) ==
    Run(s, track_stock_analysis(Here(s), hour))

TrackSentimentCheck(s) ==
    Run(s, track_sentiment_check(Here(s), hour))

TrackAiScreenerUse(s) ==
    Run(s, track_ai_screener_use(Here(s), hour))

TrackFavoriteAdded(s) ==
    Run(s, track_favorite_added(Here(s), hour))

TrackPortfolioAddition(s) ==
    \E rows \in Snapshots :
        Run(s, track_portfolio_addition(Here(s), rows, hour))

UpdateVisitStreak(s) ==
    Run(s, update_visit_streak(Here(s), today))

CheckAchievements(s) ==
    Run(s, check_achievements(Here(s), hour))

InitializeGamification(s) ==
    Run(s, initialize_gamification(Here(s), today, hour))

CheckSectorAchievements(s) ==
    \E rows \in Snapshots :
        Run(s, check_sector_achievements(Here(s), rows))

CheckSentimentAchievements(s) ==
    \E result \in SentimentResults :
        Run(s, check_sentiment_achievements(Here(s), result.score, result.type))

CheckPortfolioPerformance(s) ==
    \E rows \in Snapshots, spy_return \in SpyReturns :
        Run(s, check_portfolio_performance(Here(s), rows, spy_return))

\* the clock moves on within the day
ClockHour ==
    /\ \E h \in Hours : h > hour /\ hour' = h
    /\ UNCHANGED << session_state, db_stats, db_achievements, db_up, today, ret, awards,
                    observed, loads, visited >>

\* the clock moves on to a later day
ClockDay ==
    /\ \E d \in (today + 1)..MaxDay : today' = d
    /\ hour' \in Hours
    /\ UNCHANGED << session_state, db_stats, db_achievements, db_up, ret, awards, observed,
                    loads, visited >>

\* the stats session s works on: its dict, or the row it would load
Cur(s) == initialize_user_stats(Here(s)).mem

\* the tracked events so far
Events(s) ==
    Cur(s).stocks_analyzed + Cur(s).sentiment_checks + Cur(s).ai_screener_uses
    + Cur(s).stocks_favorited + Cur(s).portfolio_additions

\* one call of session s
Call(s) ==
    \/ Events(s) < MaxEvents /\ TrackStockAnalysis(s)
    \/ Events(s) < MaxEvents /\ TrackSentimentCheck(s)
    \/ Events(s) < MaxEvents /\ TrackAiScreenerUse(s)
    \/ Events(s) < MaxEvents /\ TrackFavoriteAdded(s)
    \/ Events(s) < MaxEvents /\ TrackPortfolioAddition(s)
    \/ UpdateVisitStreak(s)
    \/ CheckAchievements(s)
    \/ InitializeGamification(s)
    \/ CheckSectorAchievements(s)
    \/ CheckSentimentAchievements(s)
    \/ CheckPortfolioPerformance(s)

Next ==
    \/ Call("s1")
    \/ ClockHour
    \/ ClockDay

\* one session, every operation of the engine, a writable store
Spec == Init /\ [][Next]_vars

\* the stat-threshold rule of starter fires once this many stocks are favorited
\* (stocks_favorited > 0)
StarterFavorites == 1

\* the tracked events alone, each counter up to Slack past its threshold
CallTrack(s) ==
    \/ Cur(s).stocks_analyzed < Slack /\ TrackStockAnalysis(s)
    \/ Cur(s).sentiment_checks < SentimentAnalystChecks + Slack /\ TrackSentimentCheck(s)
    \/ Cur(s).ai_screener_uses < AiExplorerUses + Slack /\ TrackAiScreenerUse(s)
    \/ Cur(s).stocks_favorited < StarterFavorites + Slack /\ TrackFavoriteAdded(s)
    \/ Cur(s).portfolio_additions < PortfolioMasterAdditions + Slack
       /\ TrackPortfolioAddition(s)

NextTrack == CallTrack("s1")

\* one session that only tracks events, at one hour, from zero stats up past
\* every counter threshold
SpecTrack == Init /\ [][NextTrack]_vars

NextVisit ==
    \/ UpdateVisitStreak("s1")
    \/ CheckAchievements("s1")
    \/ InitializeGamification("s1")
    \/ ClockHour
    \/ ClockDay

\* one session that only visits (the app's start, the achievements page)
\* while the clock runs
SpecVisit == Init /\ [][NextVisit]_vars

\* a page calls database.add_achievement(achievement_id) directly
AddAchievement(achievement_id) ==
    LET c == add_achievement(Here("s1"), achievement_id)
    IN  /\ db_achievements' = c.log
        /\ ret' = c.ret
        /\ UNCHANGED << session_state, db_stats, db_up, today, hour, awards, observed,
                    loads, visited >>

NextStore ==
    \E achievement_id \in AchievementIds :
        BagCardinality(db_achievements) < MaxRows /\ AddAchievement(achievement_id)

\* the achievements table under add_achievement alone
SpecStore == Init /\ [][NextStore]_vars

\* the sentiment results a page may hand to check_sentiment_achievements:
\* scores of 0.0, 0.3, 0.5 and 0.9
SentimentObservations ==
    { [ score |-> 0, type |-> "neutral" ], [ score |-> 30, type |-> "bearish" ],
      [ score |-> 50, type |-> "neutral" ], [ score |-> 90, type |-> "bullish" ] }

ObserveSentiment(s) ==
    \E result \in SentimentObservations :
        Run(s, check_sentiment_achievements(Here(s), result.score, result.type))

NextSentiment ==
    \/ ObserveSentiment("s1")
    \/ CheckAchievements("s1")
    \/ ClockHour

\* one session that passes sentiment results of every kind to the engine
SpecSentiment == Init /\ [][NextSentiment]_vars

\* the store stops taking writes: the UPDATE and the INSERT raise inside the
\* try blocks of update_user_stats and add_achievement
StoreFails ==
    /\ db_up
    /\ db_up' = FALSE
    /\ UNCHANGED << session_state, db_stats, db_achievements, today, hour, ret, awards,
                    observed, loads, visited >>

\* the store takes writes again
StoreRecovers ==
    /\ ~db_up
    /\ db_up' = TRUE
    /\ UNCHANGED << session_state, db_stats, db_achievements, today, hour, ret, awards,
                    observed, loads, visited >>

\* a call of session s while the store may fail
CallFail(s) ==
    \/ Events(s) < MaxEvents /\ TrackFavoriteAdded(s)
    \/ Events(s) < MaxEvents /\ TrackPortfolioAddition(s)
    \/ CheckAchievements(s)
    \/ CheckSentimentAchievements(s)

NextFail ==
    \/ CallFail("s1")
    \/ StoreFails
    \/ StoreRecovers

\* one session, at one hour, whose store fails and recovers
SpecFail == Init /\ [][NextFail]_vars

\* session s has loaded its stats
Loaded(s) == session_state[s] # NoStats

\* session s has visited the app on the clock's day: on the day the stats
\* were created it has loaded them, on a later day the visit has written the
\* day into last_visit_date
VisitedToday(s) ==
    /\ Loaded(s)
    /\ session_state[s].last_visit_date = DateText(today)

\* midnight after a day with a visit
ClockNextDay ==
    /\ VisitedToday("s1")
    /\ today < MaxDay
    /\ today' = today + 1
    /\ hour' \in Hours
    /\ UNCHANGED << session_state, db_stats, db_achievements, db_up, ret, awards, observed,
                    loads, visited >>

\* the session starts with the app's start (src/app.py:91 runs before any page
\* tracks an event); later calls follow it
NextDaily ==
    \/ InitializeGamification("s1")
    \/ Loaded("s1") /\ CheckAchievements("s1")
    \/ Loaded("s1") /\ Cur("s1").stocks_analyzed < Slack /\ TrackStockAnalysis("s1")
    \/ ClockHour
    \/ ClockNextDay

\* one session of a user who starts the app every day from the day the stats
\* were created
SpecDaily == Init /\ [][NextDaily]_vars

\* a call of session s that counts: a tracked event or a visit
CallCount(s) ==
    \/ Events(s) < MaxEvents /\ TrackStockAnalysis(s)
    \/ Events(s) < MaxEvents /\ TrackSentimentCheck(s)
    \/ Events(s) < MaxEvents /\ TrackAiScreenerUse(s)
    \/ Events(s) < MaxEvents /\ TrackFavoriteAdded(s)
    \/ Events(s) < MaxEvents /\ TrackPortfolioAddition(s)
    \/ UpdateVisitStreak(s)
    \/ InitializeGamification(s)

NextCount ==
    \/ CallCount("s1")
    \/ ClockDay

\* one session: the operations that write the counters and the streak
SpecCount == Init /\ [][NextCount]_vars

(***************************************************************************)
(* What the claims speak of.                                               *)
(***************************************************************************)
\* session s holds the achievement in stats['achievements']
Earned(s, id) == Loaded(s) /\ BagIn(id, session_state[s].achievements)

\* the last call returned (no exception left it)
HasReturned == ret.kind # "raise"

(***************************************************************************)
(* C1.  No duplicate awards: within one session, whatever the sequence of  *)
(* tracked events, visits and evaluation passes, every achievement ID is   *)
(* at most once in stats['achievements'], and at most one evaluation pass  *)
(* returns it as newly earned.                                             *)
(***************************************************************************)
C1_NoDuplicateAwards ==
    \A s \in Sessions : \A id \in AchievementIds :
        /\ Loaded(s) => CopiesIn(id, session_state[s].achievements) <= 1
        /\ CopiesIn(id, awards[s]) <= 1

\* the session has earned starter and two more achievements in passes that
\* evaluated the rules with starter's condition true
C1_Witness ==
    /\ Earned("s1", "starter")
    /\ Earned("s1", "bull_catcher")
    /\ Earned("s1", "consecutive_login")
    /\ BagCardinality(awards["s1"]) >= 3

(***************************************************************************)
(* C2.  Score invariant: after every operation of the engine, the          *)
(* in-memory total_points is the sum of ACHIEVEMENTS[id]['points'] over    *)
(* the IDs in the in-memory achievements list.                             *)
(***************************************************************************)
C2_ScoreInvariant ==
    \A s \in Sessions :
        Loaded(s) =>
            session_state[s].total_points = BagPoints(session_state[s].achievements)

\* three achievements are earned, from a tracked event, the clock and a
\* sentiment pass, and the score is theirs
C2_Witness ==
    /\ Earned("s1", "starter")
    /\ Earned("s1", "night_owl")
    /\ Earned("s1", "bull_catcher")
    /\ session_state["s1"].total_points = 35

(***************************************************************************)
(* C3.  add_achievement(id), called when the achievements table already    *)
(* holds a record for id, is a no-op that reports success: the table is    *)
(* unchanged, so it never holds two records with the same achievement_id.  *)
(***************************************************************************)
C3_AddAchievementNoOp ==
    [][ \A id \in AchievementIds :
            (BagIn(id, db_achievements) /\ AddAchievement(id)) =>
                (db_achievements' = db_achievements /\ ret' = ReturnedBool(TRUE)) ]_vars

(***************************************************************************)
(* C4.  The three cases of update_visit_streak: today equal to             *)
(* last_visit_date leaves consecutive_days and last_visit_date as they     *)
(* are; today one day after it adds 1 to consecutive_days; today more than *)
(* one day after it sets consecutive_days to 1; in the last two cases      *)
(* last_visit_date becomes today.                                          *)
(***************************************************************************)
\* the clock's day on which strftime prints the text
ClockDayOf(text) == CHOOSE d \in 0..MaxDay : DateText(d) = text

C4_StreakCases ==
    [][ \A s \in Sessions :
            (UpdateVisitStreak(s) \/ InitializeGamification(s)) =>
                LET old == Cur(s)
                    new == session_state'[s]
                    gap == today - ClockDayOf(old.last_visit_date)
                IN  /\ gap = 0 =>
                          /\ new.consecutive_days = old.consecutive_days
                          /\ new.last_visit_date = old.last_visit_date
                    /\ gap = 1 =>
                          /\ new.consecutive_days = old.consecutive_days + 1
                          /\ new.last_visit_date = DateText(today)
                    /\ gap > 1 =>
                          /\ new.consecutive_days = 1
                          /\ new.last_visit_date = DateText(today) ]_vars

\* visits on January 31 and on February 1 after the start on January 30: two
\* advances by one day, across the end of the month
C4_Witness ==
    /\ Loaded("s1")
    /\ session_state["s1"].consecutive_days = 2
    /\ session_state["s1"].last_visit_date = << 2, 1 >>
    /\ session_state["s1"].app_opens = 2

(***************************************************************************)
(* C5.  From zero stats the first track_favorite_added() yields exactly    *)
(* ["starter"] and leaves total_points = 10; a second call yields [] and   *)
(* leaves total_points as it is.                                           *)
(***************************************************************************)
\* the five counters of the tracked events
TrackCounters(stats) ==
    << stats.stocks_analyzed, stats.sentiment_checks, stats.ai_screener_uses,
       stats.stocks_favorited, stats.portfolio_additions >>

\* nothing tracked, nothing earned
ZeroStats(stats) ==
    /\ TrackCounters(stats) = << 0, 0, 0, 0, 0 >>
    /\ stats.achievements = EmptyBag
    /\ stats.total_points = 0
    /\ stats.consecutive_days = 0

C5_FirstFavorite ==
    [][ TrackFavoriteAdded("s1") =>
            LET old == Cur("s1")
                new == session_state'["s1"]
            IN  /\ ZeroStats(old) =>
                      (ret' = Returned(<< "starter" >>) /\ new.total_points = 10)
                /\ TrackCounters(old) = << 0, 0, 0, 1, 0 >> =>
                      (ret' = Returned(<<>>) /\ new.total_points = old.total_points) ]_vars

(***************************************************************************)
(* C6.  Every track_* operation returns to its caller the sequence of the  *)
(* achievement IDs this call newly added to the earned set, the empty      *)
(* sequence when it added none.                                            *)
(***************************************************************************)
\* a step of any of the five track_* operations
AnyTrack(s) ==
    \/ TrackStockAnalysis(s)
    \/ TrackSentimentCheck(s)
    \/ TrackAiScreenerUse(s)
    \/ TrackFavoriteAdded(s)
    \/ TrackPortfolioAddition(s)

C6_TrackReturnsNewlyEarned ==
    [][ \A s \in Sessions :
            AnyTrack(s) =>
                /\ ret'.kind = "list"
                /\ Cur(s).achievements (+) ListToBag(ret'.list)
                       = session_state'[s].achievements ]_vars

(***************************************************************************)
(* C7.  Threshold boundaries, in a session started from zero stats:        *)
(* ai_explorer is not earned while ai_screener_uses is 4 and is earned by  *)
(* the track_ai_screener_use call that makes it 5; after every track_*     *)
(* call that returns, starter is earned iff stocks_favorited > 0,          *)
(* ai_explorer iff ai_screener_uses >= 5, sentiment_analyst iff            *)
(* sentiment_checks >= 10, portfolio_master iff portfolio_additions >= 10. *)
(***************************************************************************)
C7_ThresholdBoundaries ==
    Loaded("s1") =>
        LET stats == session_state["s1"]
        IN  /\ stats.ai_screener_uses <= 4 => ~Earned("s1", "ai_explorer")
            /\ HasReturned =>
                  /\ Earned("s1", "starter") <=> stats.stocks_favorited > 0
                  /\ Earned("s1", "ai_explorer") <=> stats.ai_screener_uses >= 5
                  /\ Earned("s1", "sentiment_analyst") <=> stats.sentiment_checks >= 10
                  /\ Earned("s1", "portfolio_master") <=> stats.portfolio_additions >= 10

\* a track_* call has returned with every counter at its threshold and the
\* three counter achievements earned
C7_Witness ==
    /\ Loaded("s1")
    /\ HasReturned
    /\ session_state["s1"].ai_screener_uses = 5
    /\ session_state["s1"].sentiment_checks = 10
    /\ session_state["s1"].portfolio_additions = 10
    /\ Earned("s1", "ai_explorer")
    /\ Earned("s1", "sentiment_analyst")
    /\ Earned("s1", "portfolio_master")

(***************************************************************************)
(* C8.  Idempotent re-evaluation: an evaluation (check_achievements,       *)
(* check_sector_achievements on the same holdings,                         *)
(* check_sentiment_achievements with the same score and type) called       *)
(* again right away, the stats and the snapshot unchanged, returns an      *)
(* empty list and does not change total_points.  The second call is taken  *)
(* at the same hour as the first.                                          *)
(***************************************************************************)
\* a second call that ended in the context c returned [] and left the
\* total_points of session s as the first call left them
ReturnsNothingNew(s, c) ==
    /\ c.ret = Returned(<<>>)
    /\ c.mem.total_points = session_state'[s].total_points

C8_IdempotentReevaluation ==
    [][ \A s \in Sessions :
            /\ CheckAchievements(s) =>
                   ReturnsNothingNew(s, check_achievements(Here(s)', hour'))
            /\ \A rows \in Snapshots :
                   Run(s, check_sector_achievements(Here(s), rows)) =>
                       ReturnsNothingNew(s, check_sector_achievements(Here(s)', rows))
            /\ \A result \in SentimentResults :
                   Run(s, check_sentiment_achievements(Here(s), result.score, result.type)) =>
                       ReturnsNothingNew(s,
                           check_sentiment_achievements(Here(s)', result.score, result.type))
      ]_vars

(***************************************************************************)
(* C9.  bull_catcher, bear_tamer and market_crusher are evaluated on every *)
(* tracked event: after track_sentiment_check for a bullish result with    *)
(* score >= 0.80 bull_catcher is earned, for a bearish result with score   *)
(* <= 0.40 bear_tamer is earned, and market_crusher is earned after any    *)
(* tracked event at which the portfolio return exceeds the benchmark       *)
(* return and 0.                                                           *)
(***************************************************************************)
\* the portfolio returns (percent) of the claim's cases
PortfolioReturns == { -1, 5 }

\* a tracked event: a track_* call or a visit
TrackedEvent(s) == AnyTrack(s) \/ InitializeGamification(s)

C9_SentimentRulesOnTrackedEvents ==
    [][ \A s \in Sessions :
            /\ \A result \in SentimentResults :
                   TrackSentimentCheck(s) =>
                       /\ (result.type = "bullish" /\ result.score >= 80) =>
                              BagIn("bull_catcher", session_state'[s].achievements)
                       /\ (result.type = "bearish" /\ result.score <= 40) =>
                              BagIn("bear_tamer", session_state'[s].achievements)
            /\ \A portfolio_return \in PortfolioReturns, spy_return \in SpyReturns :
                   (TrackedEvent(s) /\ portfolio_return > spy_return /\ portfolio_return > 0) =>
                       BagIn("market_crusher", session_state'[s].achievements) ]_vars

(***************************************************************************)
(* C10.  One portfolio evaluation pass awards together exactly the         *)
(* not-yet-earned portfolio rules whose condition holds on the snapshot:   *)
(* diversified iff >= 3 distinct known sectors, tech_enthusiast iff >= 5   *)
(* technology holdings, dividend_hunter iff >= 3 holdings with a dividend  *)
(* yield over 3%, value_investor iff >= 3 holdings with P/E < 15,          *)
(* globetrotter iff >= 3 distinct countries.  The scenario's 5 holdings in *)
(* 4 sectors, 3 of them yielding 4%, award {diversified, dividend_hunter}. *)
(***************************************************************************)
\* the indices of the holdings of a snapshot that satisfy P
Holdings(rows, P(_)) == { i \in 1..Len(rows) : P(rows[i]) }

HasKnownSector(holding) ==
    holding.sector # None /\ strip(holding.sector) \notin { "", "Unknown" }

IsTechnology(holding) ==
    HasKnownSector(holding) /\ lower(strip(holding.sector)) \in TechSectors

HasInfo(holding) == YfInfo(holding.ticker) # Unavailable

YieldsOver3Percent(holding) ==
    HasInfo(holding) /\ YfInfo(holding.ticker).dividendYield > 30

PeBelow15(holding) ==
    HasInfo(holding) /\ YfInfo(holding.ticker).trailingPE > 0
    /\ YfInfo(holding.ticker).trailingPE < 15

HasCountry(holding) ==
    HasInfo(holding) /\ YfInfo(holding.ticker).country \notin { None, "", "  " }

\* the portfolio rules whose condition holds on the snapshot
SatisfiedOn(rows) ==
    { id \in { "diversified", "tech_enthusiast", "dividend_hunter", "value_investor",
               "globetrotter" } :
        CASE id = "diversified" ->
               Cardinality({ strip(rows[i].sector) : i \in Holdings(rows, HasKnownSector) }) >= 3
          [] id = "tech_enthusiast" -> Cardinality(Holdings(rows, IsTechnology)) >= 5
          [] id = "dividend_hunter" -> Cardinality(Holdings(rows, YieldsOver3Percent)) >= 3
          [] id = "value_investor" -> Cardinality(Holdings(rows, PeBelow15)) >= 3
          [] id = "globetrotter" ->
               Cardinality({ YfInfo(rows[i].ticker).country :
                               i \in Holdings(rows, HasCountry) }) >= 3 }

C10_PortfolioPassAwards ==
    [][ \A s \in Sessions : \A rows \in Snapshots :
            Run(s, check_sector_achievements(Here(s), rows)) =>
                session_state'[s].achievements =
                    Cur(s).achievements
                    (+) SetToBag(SatisfiedOn(rows) \ DOMAIN Cur(s).achievements) ]_vars

(***************************************************************************)
(* C11.  The list of newly earned IDs that an evaluation pass returns is   *)
(* in the iteration order of the ACHIEVEMENTS catalog: of two IDs returned *)
(* by the same pass, the one defined earlier in ACHIEVEMENTS comes first.  *)
(***************************************************************************)
\* the place of an ID in the catalog's iteration order
CatalogIndex(id) == CHOOSE i \in 1..Len(CatalogOrder) : CatalogOrder[i] = id

C11_ReturnedInCatalogOrder ==
    ret.kind = "list" =>
        \A i, j \in 1..Len(ret.list) :
            i < j => CatalogIndex(ret.list[i]) < CatalogIndex(ret.list[j])

(***************************************************************************)
(* C12.  Write-through: every operation that changes a field of the        *)
(* in-memory stats saves them before it returns, so while no write fails   *)
(* the durable stats record equals the in-memory stats after every         *)
(* operation that has returned.                                            *)
(***************************************************************************)
\* the row that a save of the stats of session s would write
RowOf(s) == update_user_stats(Here(s), session_state[s]).row

C12_WriteThrough ==
    \A s \in Sessions :
        (Loaded(s) /\ HasReturned /\ db_up) => db_stats = RowOf(s)

(***************************************************************************)
(* C13.  When a durable write (update_user_stats or add_achievement) fails *)
(* during a track_* operation, the failure reaches the caller of the       *)
(* track_* operation as an error outcome; it is not swallowed.  Every      *)
(* track_* operation writes (increment_stat saves), so a track_* call      *)
(* while the store takes no writes has a failed write.  The AttributeError *)
(* of a portfolio pass is no report of a failed write.                     *)
(***************************************************************************)
C13_WriteFailurePropagates ==
    [][ \A s \in Sessions :
            (AnyTrack(s) /\ ~db_up) =>
                \/ ret'.kind = "False"
                \/ ret'.kind = "raise" /\ ret'.exc # "AttributeError" ]_vars

(***************************************************************************)
(* C14.  A failed durable write never rolls back in-memory state: after a  *)
(* track_* or check_* operation during which the store rejected the        *)
(* writes, the counter increment of the operation and every award a pass   *)
(* of it made are in the in-memory stats; and no ID ever leaves the        *)
(* in-memory earned set, whatever the store does.                          *)
(***************************************************************************)
\* the step is the track operation Op of session s and leaves the counter
\* one higher than it was
Incremented(s, Op(_), counter) ==
    Op(s) => session_state'[s][counter] = Cur(s)[counter] + 1

C14_NoRollback ==
    [][ \A s \in Sessions :
            /\ (Loaded(s) /\ session_state'[s] # NoStats) =>
                   \A id \in AchievementIds :
                       BagIn(id, session_state[s].achievements) =>
                           BagIn(id, session_state'[s].achievements)
            /\ ~db_up =>
                   /\ Incremented(s, TrackStockAnalysis, "stocks_analyzed")
                   /\ Incremented(s, TrackSentimentCheck, "sentiment_checks")
                   /\ Incremented(s, TrackAiScreenerUse, "ai_screener_uses")
                   /\ Incremented(s, TrackFavoriteAdded, "stocks_favorited")
                   /\ Incremented(s, TrackPortfolioAddition, "portfolio_additions")
                   /\ \A id \in AchievementIds :
                          CopiesIn(id, awards'[s]) > CopiesIn(id, awards[s]) =>
                              BagIn(id, session_state'[s].achievements) ]_vars

\* a favorite was tracked and starter awarded while the store rejected the
\* writes: the dict has both, the store has neither
C14_Witness ==
    /\ ~db_up
    /\ Earned("s1", "starter")
    /\ session_state["s1"].stocks_favorited = 1
    /\ db_stats.stocks_favorited = 0
    /\ ~BagIn("starter", db_achievements)

(***************************************************************************)
(* C15.  A holding whose data for a rule is absent or unavailable (a null  *)
(* sector, a per-ticker lookup that fails or has no dividend yield, P/E or *)
(* country) does not match that rule and nothing more: the portfolio pass  *)
(* over a snapshot with such a holding still completes, returns a list,    *)
(* and the list is that of the rules the snapshot satisfies, every other   *)
(* holding counted for every rule.                                         *)
(***************************************************************************)
\* the holding lacks the data of some rule
LacksData(holding) ==
    \/ holding.sector = None
    \/ ~HasInfo(holding)
    \/ YfInfo(holding.ticker).dividendYield = 0
    \/ YfInfo(holding.ticker).trailingPE = 0
    \/ YfInfo(holding.ticker).country = None

C15_MissingDataIsNonMatching ==
    [][ \A s \in Sessions : \A rows \in Snapshots :
            (/\ Holdings(rows, LacksData) # {}
             /\ Run(s, check_sector_achievements(Here(s), rows))) =>
                /\ ret'.kind = "list"
                /\ ListToBag(ret'.list) =
                       SetToBag(SatisfiedOn(rows) \ DOMAIN Cur(s).achievements) ]_vars

(***************************************************************************)
(* C16.  When an operation that awards an achievement returns without a    *)
(* write failure, the store already holds the achievement record and the   *)
(* updated total_points, so a reader of the store right afterwards sees    *)
(* the durable total_points equal to the sum of the points over the        *)
(* durable achievement records.                                            *)
(***************************************************************************)
\* the step is a call in which a pass of session s awarded the ID
AwardedNow(s, id) == CopiesIn(id, awards'[s]) > CopiesIn(id, awards[s])

C16_DurableAwardConsistent ==
    [][ \A s \in Sessions :
            (/\ db_up
             /\ ret'.kind # "raise"
             /\ \E id \in AchievementIds : AwardedNow(s, id)) =>
                /\ \A id \in AchievementIds : AwardedNow(s, id) => BagIn(id, db_achievements')
                /\ db_stats'.total_points = session_state'[s].total_points
                /\ db_stats'.total_points = BagPoints(db_achievements') ]_vars

(***************************************************************************)
(* C17.  consecutive_days counts the consecutive calendar days with a      *)
(* visit: from freshly created stats, after a visit on each of k           *)
(* consecutive days, the first on the day the stats were created,          *)
(* consecutive_days = k; so consecutive_login is earned by the visit on    *)
(* the third consecutive day.  (Under SpecDaily the session begins with a  *)
(* visit and the clock passes midnight only after a visit, so after        *)
(* today's visit k = today + 1.)                                           *)
(***************************************************************************)
C17_StreakCountsVisitDays ==
    VisitedToday("s1") =>
        /\ session_state["s1"].consecutive_days = today + 1
        /\ today + 1 >= 3 => Earned("s1", "consecutive_login")

(***************************************************************************)
(* C18.  Within one session the stats are loaded from the store            *)
(* (get_user_stats) at most once, and only when the session has no         *)
(* in-memory copy yet: every later read or change of the stats in the      *)
(* session uses the copy and does not read the store again.                *)
(***************************************************************************)
C18_LoadedOncePerSession ==
    \A s \in Sessions :
        /\ loads[s] <= 1
        /\ Loaded(s) <=> loads[s] = 1

\* the session has loaded once and has since tracked an event, visited on
\* two later days and been awarded starter
C18_Witness ==
    /\ loads["s1"] = 1
    /\ Earned("s1", "starter")
    /\ session_state["s1"].stocks_favorited = 1
    /\ session_state["s1"].app_opens >= 2

(***************************************************************************)
(* C19.  In every reachable state each of the counters stocks_analyzed,    *)
(* sentiment_checks, ai_screener_uses, stocks_favorited,                   *)
(* portfolio_additions, app_opens and search_history_count of the          *)
(* in-memory stats is a non-negative integer and no operation of the       *)
(* engine decreases any of them; consecutive_days is always >= 0.          *)
(***************************************************************************)
Counters ==
    { "stocks_analyzed", "sentiment_checks", "ai_screener_uses", "stocks_favorited",
      "portfolio_additions", "app_opens", "search_history_count" }

C19_CountersMonotonic ==
    [][ \A s \in Sessions :
            session_state'[s] # NoStats =>
                /\ \A counter \in Counters :
                       /\ session_state'[s][counter] \in Nat
                       /\ session_state'[s][counter] >= Cur(s)[counter]
                /\ session_state'[s].consecutive_days \in Nat ]_vars

\* a tracked event and visits have counted: an event, visits on two later
\* days, and a streak that was reset after a gap
C19_Witness ==
    /\ Loaded("s1")
    /\ Events("s1") = 1
    /\ session_state["s1"].app_opens = 2
    /\ session_state["s1"].consecutive_days = 1

(***************************************************************************)
(* C20.  After any non-empty sequence of sentiment observations with       *)
(* scores in [0, 1] passed to check_sentiment_achievements,                *)
(* highest_sentiment_score is the maximum and lowest_sentiment_score the   *)
(* minimum of all the scores observed so far, the first observation        *)
(* setting both.                                                           *)
(***************************************************************************)
\* the largest and the smallest of a non-empty set of scores
Maximum(scores) == CHOOSE x \in scores : \A y \in scores : y <= x
Minimum(scores) == CHOOSE x \in scores : \A y \in scores : x <= y

C20_HighestLowestSentiment ==
    \A s \in Sessions :
        observed[s] # {} =>
            /\ session_state[s].highest_sentiment_score = Maximum(observed[s])
            /\ session_state[s].lowest_sentiment_score = Minimum(observed[s])

(***************************************************************************)
(* C21.  Every tracked event (a track_* call or a visit) that runs while   *)
(* the hour is >= 22 leaves night_owl in the earned set, every one that    *)
(* runs while the hour is < 7 leaves early_bird in it, and no event at an  *)
(* hour in 7..21 newly awards either of the two.                           *)
(***************************************************************************)
C21_HourRulesOnTrackedEvents ==
    [][ \A s \in Sessions :
            TrackedEvent(s) =>
                /\ hour >= 22 => BagIn("night_owl", session_state'[s].achievements)
                /\ hour < 7 => BagIn("early_bird", session_state'[s].achievements)
                /\ hour \in 7..21 =>
                       ~AwardedNow(s, "night_owl") /\ ~AwardedNow(s, "early_bird") ]_vars

(***************************************************************************)
(* C22.  app_opens is incremented by exactly 1 by a visit that advances    *)
(* the streak (today later than last_visit_date) and is left unchanged by  *)
(* a visit on the date of last_visit_date; no other operation changes      *)
(* app_opens.                                                              *)
(***************************************************************************)
\* a step that is a visit of session s
Visit(s) == UpdateVisitStreak(s) \/ InitializeGamification(s)

C22_AppOpens ==
    [][ \A s \in Sessions :
            session_state'[s] # NoStats =>
                LET old == Cur(s)
                    new == session_state'[s]
                    gap == today - ClockDayOf(old.last_visit_date)
                IN  /\ (Visit(s) /\ gap > 0) => new.app_opens = old.app_opens + 1
                    /\ (Visit(s) /\ gap = 0) => new.app_opens = old.app_opens
                    /\ ~Visit(s) => new.app_opens = old.app_opens ]_vars

\* two visits have advanced the streak by a day each and a tracked event has
\* run; the visits were counted, the event was not
C22_Witness ==
    /\ Loaded("s1")
    /\ session_state["s1"].app_opens = 2
    /\ session_state["s1"].consecutive_days = 2
    /\ session_state["s1"].last_visit_date = DateText(today)
    /\ Events("s1") = 1

(***************************************************************************)
(* C23.  A visit updates the streak before it evaluates the                *)
(* stat-threshold rules: the very visit that raises consecutive_days to 3  *)
(* awards consecutive_login, if it is not earned yet, before it returns.   *)
(* The achievements page does the same in two calls, update_visit_streak   *)
(* and then check_achievements.                                            *)
(***************************************************************************)
\* the step raises consecutive_days of session s to 3
RaisesStreakTo3(s) ==
    /\ session_state'[s] # NoStats
    /\ Cur(s).consecutive_days < 3
    /\ session_state'[s].consecutive_days = 3

C23_VisitAwardsStreak ==
    [][ \A s \in Sessions :
            /\ (InitializeGamification(s) /\ RaisesStreakTo3(s)) =>
                   BagIn("consecutive_login", session_state'[s].achievements)
            /\ (UpdateVisitStreak(s) /\ RaisesStreakTo3(s)) =>
                   BagIn("consecutive_login",
                         check_achievements(Here(s)', hour').mem.achievements) ]_vars

\* the app was started on the day that made the streak 3 and the start
\* awarded consecutive_login
C23_Witness ==
    /\ Earned("s1", "consecutive_login")
    /\ session_state["s1"].consecutive_days = 3
    /\ session_state["s1"].last_visit_date = DateText(today)
    /\ ret = ReturnedNone
    /\ CopiesIn("consecutive_login", awards["s1"]) = 1

(***************************************************************************)
(* C24.  In every track_* operation the counter increment is saved to the  *)
(* store before any rule is evaluated: while the store takes writes, the   *)
(* rules start on a context whose durable row has the increment, and the   *)
(* row has it after the operation also when an exception in the rule       *)
(* evaluation left the operation.                                          *)
(***************************************************************************)
\* the step is the track operation Op of session s; the increment of its
\* counter is in the row before the rules run and after the step
SavedFirst(s, Op(_), counter) ==
    Op(s) =>
        /\ increment_stat(Here(s), counter).row[counter] = Cur(s)[counter] + 1
        /\ db_stats'[counter] = Cur(s)[counter] + 1

C24_IncrementSavedBeforeRules ==
    [][ \A s \in Sessions :
            db_up =>
                /\ SavedFirst(s, TrackStockAnalysis, "stocks_analyzed")
                /\ SavedFirst(s, TrackSentimentCheck, "sentiment_checks")
                /\ SavedFirst(s, TrackAiScreenerUse, "ai_screener_uses")
                /\ SavedFirst(s, TrackFavoriteAdded, "stocks_favorited")
                /\ SavedFirst(s, TrackPortfolioAddition, "portfolio_additions") ]_vars

\* a portfolio addition was tracked, the portfolio pass raised, and the store
\* has the increment
C24_Witness ==
    /\ db_up
    /\ ret = Raised("AttributeError")
    /\ Loaded("s1")
    /\ session_state["s1"].portfolio_additions = 1
    /\ db_stats.portfolio_additions = 1

(***************************************************************************)
(* C25.  After every portfolio evaluation pass (check_sector_achievements, *)
(* track_portfolio_addition) sectors_in_portfolio is the set of the        *)
(* distinct known sector names of the holdings of the latest snapshot, the *)
(* empty set when the snapshot has no holdings or none with a known        *)
(* sector.                                                                 *)
(***************************************************************************)
\* the distinct known sector names of a snapshot
KnownSectors(rows) == { strip(rows[i].sector) : i \in Holdings(rows, HasKnownSector) }

\* the elements of a list
Elements(list) == { list[i] : i \in 1..Len(list) }

C25_SectorsOfLatestSnapshot ==
    [][ \A s \in Sessions : \A rows \in Snapshots :
            (\/ Run(s, check_sector_achievements(Here(s), rows))
             \/ Run(s, track_portfolio_addition(Here(s), rows, hour))) =>
                Elements(session_state'[s].sectors_in_portfolio) = KnownSectors(rows) ]_vars


(***************************************************************************)
(* Crashes and single rejected writes.  Every write of the engine is a     *)
(* transaction of its own (a connection is opened, one statement is        *)
(* executed and committed, the connection is closed), so a call that       *)
(* awards makes several independent writes: the UPDATE of increment_stat,  *)
(* one INSERT per new ID, the UPDATE of the totals.  Any one of them can   *)
(* be rejected, and the process can die between any two of them.  The      *)
(* session dict lives in the process: a process that dies, or a browser    *)
(* session that ends, loses it, and the next session loads the store.      *)
(***************************************************************************)
\* what a call left behind when its process died
Killed == [ kind |-> "killed", list |-> <<>>, exc |-> "" ]

\* what goes wrong during one call: nothing, one rejected write, or the death
\* of the process right after one write
FaultPlans ==
    { [ faults |-> {}, crash |-> 0 ] }
    \cup { [ faults |-> { k }, crash |-> 0 ] : k \in 1..MaxWrites }
    \cup { [ faults |-> {}, crash |-> k ] : k \in 1..MaxWrites }

\* the context c of a call during which plan happens
Under(c, plan) == [ c EXCEPT !.faults = plan.faults, !.crash = plan.crash ]

\* the end of a call: a process that died has lost its session dict and
\* returned nothing
Ended(c) == IF Dead(c) THEN [ c EXCEPT !.mem = NoStats, !.ret = Killed ] ELSE c

\* the IDs awarded to session s so far
AwardCount(s) == BagCardinality(awards[s])

FaultyTrackFavoriteAdded(s) ==
    \E plan \in FaultPlans :
        Run(s, Ended(track_favorite_added(Under(Here(s), plan), hour)))

FaultyCheckAchievements(s) ==
    \E plan \in FaultPlans :
        Run(s, Ended(check_achievements(Under(Here(s), plan), hour)))

\* the browser session s ends: its st.session_state is gone, and the next
\* call of s starts a session that loads the store
SessionEnds(s) ==
    /\ Loaded(s)
    /\ session_state' = [ session_state EXCEPT ![s] = NoStats ]
    /\ UNCHANGED << db_stats, db_achievements, db_up, today, hour, ret, awards, observed,
                    loads, visited >>

\* session s has its dict, or can still load it
CanCall(s) == Loaded(s) \/ loads[s] < MaxSessions

\* a call of session s during which a write may be rejected or the process die
CallCrash(s) ==
    \/ /\ CanCall(s) /\ AwardCount(s) < MaxRows /\ Events(s) < MaxEvents
       /\ FaultyTrackFavoriteAdded(s)
    \/ /\ CanCall(s) /\ AwardCount(s) < MaxRows
       /\ FaultyCheckAchievements(s)

NextCrash ==
    \/ CallCrash("s1")
    \/ SessionEnds("s1")

\* one user whose sessions follow one another, with rejected writes and crashes
SpecCrash == Init /\ [][NextCrash]_vars

(***************************************************************************)
(* C26: wherever the process died inside an awarding operation (between    *)
(* add_achievement and the update_user_stats that follows it, say) and     *)
(* whichever single write was rejected, the stats that the next session    *)
(* loads from the store have total_points equal to the sum of the points   *)
(* of the achievements loaded with them.                                   *)
(***************************************************************************)
C26_LoadedScoreConsistent ==
    [][ \A s \in Sessions :
            loads'[s] > loads[s] =>
                LET stats == get_user_stats(db_stats, db_achievements)
                IN  stats.total_points = BagPoints(stats.achievements) ]_vars


\* the IDs awarded so far, to any session
EverAwarded == { id \in AchievementIds : \E t \in Sessions : BagIn(id, awards[t]) }

(***************************************************************************)
(* C27: an achievement that was awarded in one session is not awarded      *)
(* again by a later session that loads the store, and its points enter     *)
(* total_points once over the life of the store, also when the             *)
(* add_achievement of the award was rejected and the update_user_stats     *)
(* after it was not.                                                       *)
(***************************************************************************)
C27_AwardedOnceAcrossSessions ==
    [][ \A s \in Sessions : \A id \in AchievementIds :
            AwardedNow(s, id) =>
                /\ \A t \in Sessions : ~BagIn(id, awards[t])
                /\ db_stats'.total_points <= BagPoints(SetToBag(EverAwarded')) ]_vars


(***************************************************************************)
(* A clock that can be set back.  update_visit_streak reads                *)
(* datetime.now() at every call and compares it with the stored            *)
(* last_visit_date; nothing in the engine requires the date it reads to    *)
(* be later than the one it stored.                                        *)
(***************************************************************************)
\* the context c of a visit on day d, with the day noted
Noted(c, d) == [ c EXCEPT !.visits = @ \cup { d } ]

\* the visit of pages/achievements.py and of the app's start, on the clock's day
DatedVisit(s) ==
    Run(s, Noted(update_visit_streak(Here(s), today), today))

\* the clock is set to another day, later or earlier
ClockSet ==
    /\ \E d \in 0..MaxDay : d # today /\ today' = d
    /\ UNCHANGED << session_state, db_stats, db_achievements, db_up, hour, ret, awards,
                    observed, loads, visited >>

NextClock ==
    \/ Cur("s1").app_opens < MaxVisits /\ DatedVisit("s1")
    \/ ClockSet

\* one session that visits under a clock that is set forth and back
SpecClock == Init /\ [][NextClock]_vars

(***************************************************************************)
(* C28: whatever the dates of the visits, also when the clock goes back    *)
(* between them, consecutive_days is at most the number of distinct dates  *)
(* on which a visit was made, and last_visit_date never moves to an        *)
(* earlier date.                                                           *)
(***************************************************************************)
C28_StreakWithinVisitDates ==
    [][ \A s \in Sessions :
            Loaded(s)' =>
                /\ Cur(s)'.consecutive_days <= Cardinality(visited'[s])
                /\ strptime(Cur(s)'.last_visit_date) >= strptime(Cur(s).last_visit_date) ]_vars


(***************************************************************************)
(* Two sessions on one store.  st.session_state is per browser session,    *)
(* the SQLite file is one: each session loads its dict at its first call   *)
(* and from then on writes the store from that dict without reading the    *)
(* store again.                                                            *)
(***************************************************************************)
\* a call of session s next to another session
CallShared(s) ==
    \/ Events(s) < MaxEvents /\ TrackFavoriteAdded(s)
    \/ Events(s) < MaxEvents /\ TrackStockAnalysis(s)
    \/ CheckAchievements(s)

NextShared ==
    \/ CallShared("s1")
    \/ CallShared("s2")
    \/ ClockHour

\* two sessions whose calls interleave
SpecShared == Init /\ [][NextShared]_vars

(***************************************************************************)
(* C29: however the calls of two sessions on the same store interleave,    *)
(* each with a dict loaded before the other's writes, the achievements     *)
(* table holds at most one record per ID and, after every call, the        *)
(* stored total_points is the sum of the points of the distinct IDs in     *)
(* the table.                                                              *)
(***************************************************************************)
C29_SharedStoreConsistent ==
    /\ \A id \in AchievementIds : CopiesIn(id, db_achievements) <= 1
    /\ db_stats.total_points = BagPoints(SetToBag(BagToSet(db_achievements)))


\* the step gives the stats of session s one more in counter and the same in
\* every other counter, in consecutive_days and in last_visit_date, in the
\* session's dict and in the stored row
OnlyIncrements(s, counter) ==
    LET old == Cur(s)
        new == session_state'[s]
    IN  /\ new[counter] = old[counter] + 1
        /\ db_stats'[counter] = old[counter] + 1
        /\ \A other \in Counters \ { counter } :
               new[other] = old[other] /\ db_stats'[other] = old[other]
        /\ new.consecutive_days = old.consecutive_days
        /\ new.last_visit_date = old.last_visit_date
        /\ db_stats'.consecutive_days = old.consecutive_days
        /\ db_stats'.last_visit_date = old.last_visit_date

(***************************************************************************)
(* C30: each track_* operation adds exactly 1 to its own counter and       *)
(* leaves every other counter, consecutive_days and last_visit_date as     *)
(* they were.                                                              *)
(***************************************************************************)
C30_TrackFrame ==
    [][ \A s \in Sessions :
            /\ TrackStockAnalysis(s) => OnlyIncrements(s, "stocks_analyzed")
            /\ TrackSentimentCheck(s) => OnlyIncrements(s, "sentiment_checks")
            /\ TrackAiScreenerUse(s) => OnlyIncrements(s, "ai_screener_uses")
            /\ TrackFavoriteAdded(s) => OnlyIncrements(s, "stocks_favorited")
            /\ TrackPortfolioAddition(s) => OnlyIncrements(s, "portfolio_additions") ]_vars

\* a sentiment check was tracked in a session with a streak and a visit count
C30_Witness ==
    /\ Loaded("s1")
    /\ session_state["s1"].sentiment_checks = 1
    /\ session_state["s1"].stocks_analyzed = 0
    /\ session_state["s1"].consecutive_days = 1
    /\ session_state["s1"].app_opens = 1
    /\ session_state["s1"].last_visit_date = DateText(1)
    /\ db_stats.sentiment_checks = 1
    /\ today = 2

=============================================================================
